---- MODULE Spec2Model ----
(***************************************************************************)
(* A model of logpkt.c (SSLsplit): the segmentation driver                 *)
(* logpkt_write_payload with the packet synthesizer logpkt_build_packet    *)
(* and logpkt_write_packet, the pcap container functions                   *)
(* logpkt_pcap_open_fd and logpkt_write_pcap_record, and the ARP           *)
(* resolver logpkt_ether_lookup.                                           *)
(*                                                                         *)
(* Four specifications share the variables: Spec (the driver), FileSpec    *)
(* (the capture file), ArpSpec (the resolver) and ConcSpec (several        *)
(* connections logging to one capture file).  Each leaves the other        *)
(* components' variables unchanged.                                        *)
(***************************************************************************)
EXTENDS Integers, Sequences, FiniteSets, TLC

VARIABLES
    ctx,        \* pcap_packet_t per context: [af, seq, ack]
    pblocks,    \* protocol blocks pending in the libnet context
    sink,       \* frames the sink accepted from the running call, in order
    call,       \* arguments and locals of the running logpkt_write_payload,
                \* with the number, result and fault of its
                \* logpkt_write_packet calls
    pc,         \* position of the driver: "idle", "loop", "done"
    entry,      \* ctx as it was when the running call was entered
    calls,      \* number of logpkt_write_payload calls made
    file,       \* bytes of the capture file
    pos,        \* file offset of the descriptor
    fop,        \* last file operation and its result
    prev,       \* file as it was before the last file operation
    appends,    \* number of logpkt_write_pcap_record calls made
    arp,        \* state of logpkt_ether_lookup
    conc        \* connections logging to one capture file at a time

vars == <<ctx, pblocks, sink, call, pc, entry, calls,
          file, pos, fop, prev, appends, arp, conc>>

driverVars == <<ctx, pblocks, sink, call, pc, entry, calls>>
fileVars == <<file, pos, fop, prev, appends>>
arpVars == <<arp>>
concVars == <<conc>>

(***************************************************************************)
(* Bounds of the model.                                                    *)
(***************************************************************************)
MaxCalls == 2
MaxChunks == 2
MaxOpens == 2
MaxAppends == 2
MaxWindow == 2
MaxFrames == 2

(***************************************************************************)
(* uint32_t counters.  A value is <<hi, lo>>, two 16-bit halves, so that   *)
(* the arithmetic is exactly arithmetic modulo 2^32.                       *)
(***************************************************************************)
Half == 65536

U32(hi, lo) == <<hi, lo>>

Add32(x, n) ==
    LET s == x[2] + n
    IN  <<(x[1] + (s \div Half)) % Half, s % Half>>

Zero32 == U32(0, 0)


(***************************************************************************)
(* Program constants.                                                      *)
(***************************************************************************)
MSS_VAL == 1420
TH_SYN == 2
TH_PUSH == 8
TH_ACK == 16

\* flags & bit, for a single-bit mask
HasFlag(flags, bit) == (flags \div bit) % 2 = 1

Contexts == {"A", "B"}

\* Values libnet_get_prand(LIBNET_PRu32) may return: any uint32_t; the model
\* draws from both ends of the range.
PrandValues == {U32(0, 1000), U32(Half - 1, Half - 1)}

\* Counters of a connection when the model starts: as logpkt_set_packet_fields
\* leaves them (0), and as they stand after 2^32 - 1000 bytes went each way.
StartCounters == {Zero32, U32(Half - 1, Half - 1000)}

\* Control flags the caller passes.
FlagValues == {TH_ACK, TH_PUSH + TH_ACK, TH_SYN}

\* Payload lengths the caller passes: none, one byte, one full segment, and
\* one byte more than MaxChunks - 1 and than MaxChunks full segments.
PayloadLens ==
    {0, 1, MSS_VAL} \cup {k * MSS_VAL + 1 : k \in (MaxChunks - 1)..MaxChunks}

\* The payload buffer of length n: byte i (from 0) of the caller's buffer.
PayloadByte(n, i) == (7 * i + n) % 256

Payload(n) == [i \in 1..n |-> PayloadByte(n, i - 1)]

\* What the collaborators may report during one logpkt_write_packet:
\* a layer that cannot be built, or a frame the sink does not take.
Faults == {"none", "tcp", "ip", "eth", "write"}

(***************************************************************************)
(* logpkt_build_packet: the layers are appended to the libnet context as   *)
(* they are built; the first failing layer ends the function.              *)
(***************************************************************************)
\* A protocol block: the arguments its libnet_build_* call was given.
TcpLayer(c, cs, flags, buf, off, len) ==
    [kind |-> "tcp", from |-> c, seq |-> cs[c].seq, ack |-> cs[c].ack,
     flags |-> flags, buf |-> buf, off |-> off, len |-> len]

\* The IP and Ethernet blocks carry no payload of their own.
OuterLayer(kind, c) ==
    [kind |-> kind, from |-> c, seq |-> Zero32, ack |-> Zero32,
     flags |-> 0, buf |-> 0, off |-> 0, len |-> 0]

\* a faulty variant: the sequence is redrawn whatever the flags
SynSeqAlways(cs, c, flags, r) == [cs EXCEPT ![c].seq = r]

\* if (flags & TH_SYN) ctx->seq = libnet_get_prand(LIBNET_PRu32)
SynSeq(cs, c, flags, r) ==
    IF HasFlag(flags, TH_SYN) THEN [cs EXCEPT ![c].seq = r] ELSE cs

\* a faulty variant: the sequence advances by a full segment whatever the payload
AdvanceSeqBySegment(cs, c, len) == [cs EXCEPT ![c].seq = Add32(@, MSS_VAL)]

AdvanceSeq(cs, c, len) == [cs EXCEPT ![c].seq = Add32(@, len)]

BuildPacket(cs, pb, c, flags, buf, off, len, fault, r) ==
    LET cs1 == SynSeq(cs, c, flags, r)
        tcp == TcpLayer(c, cs1, flags, buf, off, len)
        ip  == OuterLayer(IF cs1[c].af = "AF_INET" THEN "ipv4" ELSE "ipv6", c)
        eth == OuterLayer("eth", c)
    IN  IF fault = "tcp"
        THEN [ctx |-> cs1, pblocks |-> pb, ptag |-> -1]
        ELSE IF fault = "ip"
        THEN [ctx |-> cs1, pblocks |-> Append(pb, tcp), ptag |-> -1]
        ELSE IF fault = "eth"
        THEN [ctx |-> cs1, pblocks |-> pb \o <<tcp, ip>>, ptag |-> -1]
        ELSE [ctx |-> AdvanceSeq(cs1, c, len),
              pblocks |-> pb \o <<tcp, ip, eth>>, ptag |-> 1]

(***************************************************************************)
(* logpkt_write_packet: build, hand the coalesced blocks to the sink,      *)
(* clear the libnet context.  A build failure returns before the clear.    *)
(***************************************************************************)
Dispatch(sk, pb, fault) ==
    IF fault = "write"
    THEN [sink |-> sk, rv |-> -1]
    ELSE [sink |-> Append(sk, [layers |-> pb]), rv |-> 0]

WritePacket(cs, pb, sk, c, flags, buf, off, len, fault, r) ==
    LET b == BuildPacket(cs, pb, c, flags, buf, off, len, fault, r)
        d == Dispatch(sk, b.pblocks, fault)
    IN  IF b.ptag = -1
        THEN [ctx |-> b.ctx, pblocks |-> b.pblocks, sink |-> sk, rv |-> -1]
        ELSE [ctx |-> b.ctx, pblocks |-> <<>>, sink |-> d.sink, rv |-> d.rv]

(***************************************************************************)
(* logpkt_write_payload.                                                   *)
(***************************************************************************)
SendSize(payloadlen) == IF payloadlen > MSS_VAL THEN MSS_VAL ELSE payloadlen

\* a faulty variant: the payload pointer is never advanced
NextPayloadStuck(off, sendsize) == off

\* payload += sendsize
NextPayload(off, sendsize) == off + sendsize

\* a faulty variant: the trailing frame repeats the caller's flags
AckFlagsOfCall(flags) == flags

\* the flags of the trailing frame
AckFlags(flags) == TH_ACK

\* a faulty variant: the trailing frame is built from the sender
AckContextSender(from, to) == from

\* the context the trailing frame is built from
AckContext(from, to) == to

\* a faulty variant: the receiver's ack is left alone
AdvanceAckNever(cs, c, sendsize) == cs

\* to->ack += sendsize
AdvanceAck(cs, c, sendsize) == [cs EXCEPT ![c].ack = Add32(@, sendsize)]

NoCall ==
    [from |-> "A", to |-> "B", flags |-> 0, buf |-> 0, off |-> 0,
     sendsize |-> 0, payloadlen |-> 0, nwp |-> 0, wprv |-> 0,
     wfault |-> "none", rv |-> 0]

\* Entry: int sendsize = 0.
WritePayloadEnter(from, to, flags, n) ==
    /\ pc = "idle"
    /\ calls < MaxCalls
    /\ from # to
    /\ call' = [from |-> from, to |-> to, flags |-> flags, buf |-> n,
                off |-> 0, sendsize |-> 0, payloadlen |-> n,
                nwp |-> 0, wprv |-> 0, wfault |-> "none", rv |-> 0]
    /\ entry' = ctx
    /\ sink' = <<>>
    /\ calls' = calls + 1
    /\ pc' = "loop"
    /\ UNCHANGED <<ctx, pblocks, fileVars, arpVars, concVars>>

\* a faulty variant: the loop goes on after a failed logpkt_write_packet
AfterPacketIgnoring(rv) == "loop"

\* if (logpkt_write_packet(...) == -1) return -1: where the driver goes
\* after a logpkt_write_packet that returned rv inside the loop
AfterPacket(rv) == IF rv = -1 THEN "done" ELSE "loop"

\* One turn of while (payloadlen > 0).
WritePayloadChunk(fault, r) ==
    /\ pc = "loop"
    /\ call.payloadlen > 0
    /\ LET off == NextPayload(call.off, call.sendsize)
           sendsize == SendSize(call.payloadlen)
           w == WritePacket(ctx, pblocks, sink, call.from, call.flags,
                            call.buf, off, sendsize, fault, r)
           failed == w.rv = -1
       IN  /\ pblocks' = w.pblocks
           /\ sink' = w.sink
           /\ ctx' = IF failed
                     THEN w.ctx
                     ELSE AdvanceAck(w.ctx, call.to, sendsize)
           /\ call' = [call EXCEPT !.off = off, !.sendsize = sendsize,
                                   !.payloadlen = IF failed THEN @
                                                  ELSE @ - sendsize,
                                   !.nwp = @ + 1, !.wprv = w.rv,
                                   !.wfault = fault,
                                   !.rv = IF failed THEN -1 ELSE @]
           /\ pc' = AfterPacket(w.rv)
    /\ UNCHANGED <<entry, calls, fileVars, arpVars, concVars>>

\* After the loop: the pure ACK from the receiver, and the return.
WritePayloadAck(fault, r) ==
    /\ pc = "loop"
    /\ call.payloadlen = 0
    /\ LET w == WritePacket(ctx, pblocks, sink,
                            AckContext(call.from, call.to),
                            AckFlags(call.flags), 0, 0, 0, fault, r)
       IN  /\ ctx' = w.ctx
           /\ pblocks' = w.pblocks
           /\ sink' = w.sink
           /\ call' = [call EXCEPT !.nwp = @ + 1, !.wprv = w.rv,
                                   !.wfault = fault,
                                   !.rv = IF w.rv = -1 THEN -1 ELSE 0]
           /\ pc' = "done"
    /\ UNCHANGED <<entry, calls, fileVars, arpVars, concVars>>

\* The caller takes the return value; the locals and the frames are gone.
WritePayloadReturn ==
    /\ pc = "done"
    /\ pc' = "idle"
    /\ call' = NoCall
    /\ sink' = <<>>
    /\ entry' = ctx
    /\ UNCHANGED <<ctx, pblocks, calls, fileVars, arpVars, concVars>>

(***************************************************************************)
(* The capture file.  The structs are written in the machine's byte order, *)
(* modelled as little-endian; a uint32_t is encoded from its two halves.   *)
(***************************************************************************)
PCAP_MAGIC == U32(41394, 50132)   \* 0xa1b2c3d4

Encode16(v) == <<v % 256, v \div 256>>

Encode32(x) == Encode16(x[2]) \o Encode16(x[1])

Decode16(b, i) == b[i] + 256 * b[i + 1]

\* the uint32_t stored at bytes i .. i+3 of b
Decode32(b, i) == U32(Decode16(b, i + 2), Decode16(b, i))

\* sizeof(pcap_file_hdr_t), sizeof(pcap_rec_hdr_t): packed structs
FileHdrSize == 4 + 2 + 2 + 4 + 4 + 4 + 4
RecHdrSize == 4 + 4 + 4 + 4

\* the header logpkt_write_global_pcap_hdr builds
GlobalHdrMagic(magic) ==
    Encode32(magic) \o Encode16(2) \o Encode16(4) \o Encode32(Zero32)
        \o Encode32(Zero32) \o Encode32(U32(0, 1500)) \o Encode32(U32(0, 1))

GlobalHdr == GlobalHdrMagic(PCAP_MAGIC)

Min(a, b) == IF a < b THEN a ELSE b

\* write(fd, bytes, n) that transfers w bytes (w = -1: an error, nothing
\* written) at offset p, which is never beyond the end of the file here
FileWrite(f, p, bytes, w) ==
    IF w <= 0
    THEN [file |-> f, pos |-> p]
    ELSE [file |-> SubSeq(f, 1, p) \o SubSeq(bytes, 1, w)
                     \o SubSeq(f, p + w + 1, Len(f)),
          pos |-> p + w]

\* Results write() may give for a request of n bytes: an error, nothing,
\* a part, all.
WriteCounts(n) == {-1, 0, n - 1, n}

WriteGlobalPcapHdr(f, p, w) ==
    LET wr == FileWrite(f, p, GlobalHdr, w)
    IN  [file |-> wr.file, pos |-> wr.pos,
         rv |-> IF w # FileHdrSize THEN -1 ELSE 0]

\* a faulty variant: the magic is compared in the other byte order
MagicMatchesSwapped(hdr) == Decode32(hdr, 1) = U32(PCAP_MAGIC[2], PCAP_MAGIC[1])

\* a faulty variant: every field of the header is compared
MagicMatchesEveryField(hdr) == hdr = GlobalHdr

\* hdr.magic_number == PCAP_MAGIC on the block read from offset 0
MagicMatches(hdr) == Decode32(hdr, 1) = PCAP_MAGIC

\* Faults of the system calls of logpkt_pcap_open_fd, in call order.
OpenFaults ==
    {"none", "lseek_end", "lseek_set", "read", "lseek_end2", "lseek_set2",
     "ftruncate"}

\* read(fd, &hdr, sizeof(pcap_file_hdr_t)) at offset 0: the bytes it returns
ReadHdr(f) == SubSeq(f, 1, Min(FileHdrSize, Len(f)))

PcapOpenFd(f, p, fault, w) ==
    LET sz == Len(f)
        hdr == ReadHdr(f)
        n == IF fault = "read" THEN -1 ELSE Len(hdr)
    IN  IF fault = "lseek_end"
        THEN [file |-> f, pos |-> p, rv |-> -1]
        ELSE IF sz > 0
        THEN IF fault = "lseek_set"
             THEN [file |-> f, pos |-> sz, rv |-> -1]
             ELSE IF n # FileHdrSize
             THEN [file |-> f, pos |-> IF n = -1 THEN 0 ELSE n, rv |-> -1]
             ELSE IF MagicMatches(hdr)
             THEN IF fault = "lseek_end2"
                  THEN [file |-> f, pos |-> FileHdrSize, rv |-> -1]
                  ELSE [file |-> f, pos |-> sz, rv |-> 0]
             ELSE IF fault = "lseek_set2"
             THEN [file |-> f, pos |-> FileHdrSize, rv |-> -1]
             ELSE IF fault = "ftruncate"
             THEN [file |-> f, pos |-> 0, rv |-> -1]
             ELSE WriteGlobalPcapHdr(<<>>, 0, w)
        ELSE WriteGlobalPcapHdr(f, sz, w)

\* The frame libnet_pblock_coalesce returns: len bytes.
FrameLens == {54, 59}
Frame(len) == [i \in 1..len |-> (3 * i) % 256]

\* struct timeval values gettimeofday may give, as stored in the record
Timestamps == {U32(25000, 7)}
Microseconds == U32(7, 41248)

RecHdr(sec, usec, len) ==
    Encode32(sec) \o Encode32(usec) \o Encode32(U32(0, len))
        \o Encode32(U32(0, len))

\* logpkt_write_pcap_record: coalesce, then the record header, then the
\* frame; w1 and w2 are the byte counts the two writes transfer.
WritePcapRecord(f, p, len, sec, coalesce, w1, w2) ==
    LET h == FileWrite(f, p, RecHdr(sec, Microseconds, len), w1)
        d == FileWrite(h.file, h.pos, Frame(len), w2)
    IN  IF coalesce = -1
        THEN [file |-> f, pos |-> p, rv |-> -1]
        ELSE IF w1 = RecHdrSize
        THEN [file |-> d.file, pos |-> d.pos,
              rv |-> IF w2 # len THEN -1 ELSE 0]
        ELSE [file |-> h.file, pos |-> h.pos, rv |-> -1]

\* Content a file may hold that this program did not write.
Foreign(n) == [i \in 1..n |-> 65 + (i % 7)]

\* Files the descriptor may point to when the model starts.
InitialFiles ==
    {<<>>,
     GlobalHdr,
     GlobalHdr \o RecHdr(U32(24000, 3), Microseconds, 54) \o Frame(54),
     Foreign(1), Foreign(4), Foreign(FileHdrSize - 1), Foreign(FileHdrSize),
     Foreign(FileHdrSize + 16),
     SubSeq(GlobalHdr, 1, 4),
     SubSeq(GlobalHdr, 1, FileHdrSize - 1),
     Encode32(PCAP_MAGIC) \o Foreign(FileHdrSize - 4),
     Encode32(PCAP_MAGIC) \o Foreign(FileHdrSize + 16)}

NoFileOp ==
    [op |-> "none", rv |-> 0, ready |-> FALSE, opens |-> 0,
     fault |-> "none", w |-> 0]

\* A call of logpkt_pcap_open_fd(fd).
FileOpen(fault, w) ==
    /\ fop.opens < MaxOpens
    /\ LET o == PcapOpenFd(file, pos, fault, w)
       IN  /\ file' = o.file
           /\ pos' = o.pos
           /\ fop' = [op |-> "open", rv |-> o.rv, ready |-> o.rv = 0,
                      opens |-> fop.opens + 1, fault |-> fault, w |-> w]
    /\ prev' = [file |-> file, pos |-> pos]
    /\ UNCHANGED <<appends, driverVars, arpVars, concVars>>

\* A call of logpkt_write_pcap_record(fd) on a descriptor that a successful
\* logpkt_pcap_open_fd handed back.
FileAppend(len, sec, coalesce, w1, w2) ==
    /\ fop.ready
    /\ appends < MaxAppends
    /\ LET a == WritePcapRecord(file, pos, len, sec, coalesce, w1, w2)
       IN  /\ file' = a.file
           /\ pos' = a.pos
           /\ fop' = [fop EXCEPT !.op = "append", !.rv = a.rv,
                                 !.fault = "none", !.w = 0]
    /\ prev' = [file |-> file, pos |-> pos]
    /\ appends' = appends + 1
    /\ UNCHANGED <<driverVars, arpVars, concVars>>

(***************************************************************************)
(* logpkt_ether_lookup and its capture callback logpkt_recv_arp_reply.     *)
(***************************************************************************)
ARPOP_REQUEST == 1
ARPOP_REPLY == 2
ETHERTYPE_IP == 2048
ETHERTYPE_ARP == 2054
ARPHRD_ETHER == 1
ArpTries == 50

\* What an int or a buffer that was never assigned may hold.
GarbageInts == {-1, 0, 7}

Macs == {"m1", "m2"}

\* Frames the capture may deliver: the fields the callback reads.  ip is
\* the four bytes at harp + ar_hln + LIBNET_ARP_H, sha the six bytes after
\* the ARP header, shost the source address of the Ethernet header.
ArpFrames ==
    [op : {ARPOP_REQUEST, ARPOP_REPLY}, pro : {ETHERTYPE_IP, ETHERTYPE_ARP},
     hrd : {ARPHRD_ETHER, ARPHRD_ETHER + 5}, ip : {"target", "other"},
     shost : Macs, sha : Macs]

\* every test of logpkt_recv_arp_reply
PassesFilters(c, frame) ==
    /\ frame.op = ARPOP_REPLY
    /\ frame.pro = ETHERTYPE_IP
    /\ frame.hrd = ARPHRD_ETHER
    /\ frame.ip = c.ip
    /\ frame.sha = frame.shost

RecvArpReply(c, frame) ==
    IF PassesFilters(c, frame)
    THEN [c EXCEPT !.ether = frame.sha, !.result = 0]
    ELSE c

\* Steps of the setup that can fail, in order.
SetupFaults ==
    {"none", "name2addr4", "get_ipaddr4", "get_hwaddr", "build_arp",
     "build_ethernet", "open_live", "compile", "setfilter"}

\* the failures that come before memcpy(src_ether, ...)
BeforeSrcEther == {"name2addr4", "get_ipaddr4", "get_hwaddr"}

\* Lines 438-495: on a failure the function jumps to the return.
ArpSetup(fault) ==
    /\ arp.pc = "start"
    /\ arp' = IF fault = "none"
              THEN [arp EXCEPT !.pc = "send", !.src_ether = "local",
                               !.result = -1]
              ELSE [arp EXCEPT !.pc = "done", !.fault = fault,
                               !.src_ether = IF fault \in BeforeSrcEther
                                             THEN @ ELSE "local",
                               !.ret = arp.result]
    /\ UNCHANGED <<driverVars, fileVars, concVars>>

\* a faulty variant: a failed transmit or dispatch goes on to the next
\* attempt
OnLoopErrorContinue == "send"

\* break: a failed libnet_write or pcap_dispatch leaves the loop
OnLoopError == "after"

\* libnet_write(libnet_mirror) at the top of the loop body
ArpSend(ok) ==
    /\ arp.pc = "send"
    /\ arp' = IF ok
              THEN [arp EXCEPT !.pc = "dispatch", !.sent = @ + 1,
                               !.tries = @ + 1, !.seen = 0]
              ELSE [arp EXCEPT !.pc = OnLoopError, !.tries = @ + 1,
                               !.err = TRUE]
    /\ UNCHANGED <<driverVars, fileVars, concVars>>

\* pcap_dispatch hands one captured frame to the callback
ArpRecv(frame) ==
    /\ arp.pc = "dispatch"
    /\ arp.seen < MaxWindow
    /\ LET c == RecvArpReply(arp, frame)
       IN  arp' = [c EXCEPT !.seen = @ + 1,
                            !.first = IF @ = "none" /\ PassesFilters(arp, frame)
                                      THEN frame.sha ELSE @,
                            !.firstTry = IF arp.first = "none"
                                            /\ PassesFilters(arp, frame)
                                         THEN arp.tries ELSE @,
                            !.passed = @ + (IF PassesFilters(arp, frame)
                                            THEN 1 ELSE 0)]
    /\ UNCHANGED <<driverVars, fileVars, concVars>>

\* while (ctx.result == -1 && --count > 0)
LoopCount(result, count) == IF result = -1 THEN count - 1 ELSE count

\* a faulty variant: the loop goes on after a reply
LoopAgainAnswered(result, count) == count - 1 > 0

\* a faulty variant: count-- > 0 in place of --count > 0
LoopAgainPostDecrement(result, count) == result = -1 /\ count > 0

LoopAgain(result, count) == result = -1 /\ count - 1 > 0

\* pcap_dispatch returns; then sleep(1) and the loop condition
ArpDispatchEnd(ok) ==
    /\ arp.pc = "dispatch"
    /\ arp' = IF ok
              THEN [arp EXCEPT !.count = LoopCount(arp.result, @),
                               !.pc = IF LoopAgain(arp.result, arp.count)
                                      THEN "send" ELSE "after"]
              ELSE [arp EXCEPT !.pc = OnLoopError, !.err = TRUE]
    /\ UNCHANGED <<driverVars, fileVars, concVars>>

ReturnValue(a) == a.result

\* Lines 515-528: copy the address out on success, clean up, return.
ArpFinish ==
    /\ arp.pc = "after"
    /\ arp' = [arp EXCEPT !.pc = "done",
                          !.dst_ether = IF arp.result = 0 THEN arp.ether ELSE @,
                          !.ret = ReturnValue(arp)]
    /\ UNCHANGED <<driverVars, fileVars, concVars>>

(***************************************************************************)
(* Several connections logging to one capture file: each runs              *)
(* logpkt_write_packet on the global libnet context libnet_pcap and on one *)
(* descriptor, whose offset all share.  The steps of one call are the      *)
(* build, the coalesce, the write of the record header, the write of the   *)
(* frame and the clear; with serialization a call runs from its entry to   *)
(* its return before another connection's call starts.                     *)
(***************************************************************************)
Conns == {1, 2}

Modes == {"serialized", "free"}

NoWriter == 0

\* the blocks connection c builds for its k-th frame
ConnLayers(c, k) ==
    <<[conn |-> c, k |-> k, kind |-> "tcp"],
      [conn |-> c, k |-> k, kind |-> "ipv4"],
      [conn |-> c, k |-> k, kind |-> "eth"]>>

\* LIBNET_TCP_H, LIBNET_IPV4_H, LIBNET_ETH_H
LayerLen(kind) == IF kind = "eth" THEN 14 ELSE 20

\* the bytes of a block: each names the connection and the frame
LayerBytes(l) == [i \in 1..LayerLen(l.kind) |-> 16 * l.conn + l.k]

\* the buffer libnet_pblock_coalesce returns for the blocks pb
RECURSIVE PacketBytes(_)
PacketBytes(pb) ==
    IF pb = <<>> THEN <<>>
    ELSE LayerBytes(Head(pb)) \o PacketBytes(Tail(pb))

ConcStart(mode) ==
    conc = [mode |-> mode, lock |-> NoWriter,
            proc |-> [c \in Conns |->
                        [pc |-> "idle", k |-> 0, packet |-> <<>>, rv |-> 0]],
            wlog |-> <<>>]

\* the external serialization: no other connection's call is running
MayEnter(c) == conc.mode = "serialized" => conc.lock = NoWriter

\* Connection c calls logpkt_write_packet for its next frame.
WritePacketEnter(c) ==
    /\ conc.proc[c].pc = "idle"
    /\ conc.proc[c].k < MaxFrames
    /\ MayEnter(c)
    /\ conc' = [conc EXCEPT !.lock = IF conc.mode = "serialized"
                                     THEN c ELSE @,
                            !.proc[c].pc = "build"]
    /\ UNCHANGED <<driverVars, fileVars, arpVars>>

\* logpkt_build_packet appends its blocks to libnet_pcap.
WritePacketBuild(c) ==
    /\ conc.proc[c].pc = "build"
    /\ pblocks' = pblocks \o ConnLayers(c, conc.proc[c].k + 1)
    /\ conc' = [conc EXCEPT !.proc[c].pc = "coalesce"]
    /\ UNCHANGED <<ctx, sink, call, pc, entry, calls, fileVars, arpVars>>

\* libnet_pblock_coalesce(libnet_pcap, &packet, &len): -1 when the context
\* holds no block.
RecordCoalesce(c) ==
    /\ conc.proc[c].pc = "coalesce"
    /\ conc' = IF pblocks = <<>>
               THEN [conc EXCEPT !.proc[c].pc = "clear", !.proc[c].rv = -1]
               ELSE [conc EXCEPT !.proc[c].pc = "hdr",
                                 !.proc[c].packet = pblocks]
    /\ UNCHANGED <<driverVars, fileVars, arpVars>>

\* what a write that transferred w bytes adds to the order of writes
Logged(c, part, w) ==
    IF w > 0
    THEN Append(conc.wlog, [conn |-> c, k |-> conc.proc[c].k + 1,
                            part |-> part])
    ELSE conc.wlog

\* write(fd, &packet_record_hdr, sizeof(packet_record_hdr))
RecordWriteHdr(c, sec, w) ==
    /\ conc.proc[c].pc = "hdr"
    /\ LET len == Len(PacketBytes(conc.proc[c].packet))
           h == FileWrite(file, pos, RecHdr(sec, Microseconds, len), w)
       IN  /\ file' = h.file
           /\ pos' = h.pos
    /\ conc' = IF w = RecHdrSize
               THEN [conc EXCEPT !.proc[c].pc = "packet",
                                 !.wlog = Logged(c, "hdr", w)]
               ELSE [conc EXCEPT !.proc[c].pc = "clear", !.proc[c].rv = -1,
                                 !.wlog = Logged(c, "hdr", w)]
    /\ UNCHANGED <<fop, prev, appends, driverVars, arpVars>>

\* write(fd, packet, len)
RecordWritePacket(c, w) ==
    /\ conc.proc[c].pc = "packet"
    /\ LET bytes == PacketBytes(conc.proc[c].packet)
           d == FileWrite(file, pos, bytes, w)
       IN  /\ file' = d.file
           /\ pos' = d.pos
           /\ conc' = [conc EXCEPT !.proc[c].pc = "clear",
                                   !.proc[c].rv = IF w # Len(bytes)
                                                  THEN -1 ELSE 0,
                                   !.wlog = Logged(c, "packet", w)]
    /\ UNCHANGED <<fop, prev, appends, driverVars, arpVars>>

\* libnet_clear_packet(libnet) and the return: after a -1 the connection's
\* logpkt_write_payload returns -1 and it logs no more.
WritePacketClear(c) ==
    /\ conc.proc[c].pc = "clear"
    /\ pblocks' = <<>>
    /\ conc' = [conc EXCEPT
                   !.lock = NoWriter,
                   !.proc[c] = IF @.rv = 0
                               THEN [pc |-> "idle", k |-> @.k + 1,
                                     packet |-> <<>>, rv |-> 0]
                               ELSE [@ EXCEPT !.pc = "off",
                                              !.packet = <<>>]]
    /\ UNCHANGED <<ctx, sink, call, pc, entry, calls, fileVars, arpVars>>

(***************************************************************************)
(* Initial state and the specifications.                                   *)
(***************************************************************************)
DriverStart(s) ==
    /\ ctx = [c \in Contexts |-> [af |-> "AF_INET", seq |-> s, ack |-> s]]
    /\ pblocks = <<>>
    /\ sink = <<>>
    /\ call = NoCall
    /\ pc = "idle"
    /\ entry = ctx
    /\ calls = 0

FileStart(f) ==
    /\ file = f
    /\ pos = 0
    /\ fop = NoFileOp
    /\ prev = [file |-> f, pos |-> 0]
    /\ appends = 0

ArpStart(g) ==
    arp = [pc |-> "start", ip |-> "target", count |-> ArpTries,
           result |-> g, ether |-> "garbage", src_ether |-> "unset",
           dst_ether |-> "unset", ret |-> 0, sent |-> 0, tries |-> 0,
           seen |-> 0, first |-> "none", firstTry |-> 0, passed |-> 0,
           fault |-> "none", err |-> FALSE]

Init ==
    /\ \E s \in StartCounters : DriverStart(s)
    /\ FileStart(<<>>)
    /\ ArpStart(-1)
    /\ ConcStart("serialized")

FileInit ==
    /\ DriverStart(Zero32)
    /\ \E f \in InitialFiles : FileStart(f)
    /\ ArpStart(-1)
    /\ ConcStart("serialized")

ArpInit ==
    /\ DriverStart(Zero32)
    /\ FileStart(<<>>)
    /\ \E g \in GarbageInts : ArpStart(g)
    /\ ConcStart("serialized")

\* the capture file as a successful logpkt_pcap_open_fd of an empty file
\* leaves it, and no call running
ConcInit ==
    /\ DriverStart(Zero32)
    /\ file = GlobalHdr
    /\ pos = FileHdrSize
    /\ fop = [NoFileOp EXCEPT !.op = "open", !.ready = TRUE, !.opens = 1]
    /\ prev = [file |-> <<>>, pos |-> 0]
    /\ appends = 0
    /\ ArpStart(-1)
    /\ \E mode \in Modes : ConcStart(mode)

DriverNext ==
    \/ \E from \in Contexts, to \in Contexts, flags \in FlagValues,
          n \in PayloadLens : WritePayloadEnter(from, to, flags, n)
    \/ \E fault \in Faults, r \in PrandValues : WritePayloadChunk(fault, r)
    \/ \E fault \in Faults, r \in PrandValues : WritePayloadAck(fault, r)
    \/ WritePayloadReturn

FileNext ==
    \/ \E fault \in OpenFaults, w \in WriteCounts(FileHdrSize) :
          FileOpen(fault, w)
    \/ \E len \in FrameLens, sec \in Timestamps, coalesce \in {-1, 0},
          w1 \in WriteCounts(RecHdrSize) :
          \E w2 \in WriteCounts(len) : FileAppend(len, sec, coalesce, w1, w2)

ArpNext ==
    \/ \E fault \in SetupFaults : ArpSetup(fault)
    \/ \E ok \in BOOLEAN : ArpSend(ok)
    \/ \E frame \in ArpFrames : ArpRecv(frame)
    \/ \E ok \in BOOLEAN : ArpDispatchEnd(ok)
    \/ ArpFinish

ConcNext ==
    \/ \E c \in Conns : WritePacketEnter(c)
    \/ \E c \in Conns : WritePacketBuild(c)
    \/ \E c \in Conns : RecordCoalesce(c)
    \/ \E c \in Conns, sec \in Timestamps, w \in WriteCounts(RecHdrSize) :
          RecordWriteHdr(c, sec, w)
    \/ \E c \in Conns :
          \E w \in WriteCounts(Len(PacketBytes(conc.proc[c].packet))) :
             RecordWritePacket(c, w)
    \/ \E c \in Conns : WritePacketClear(c)

Spec == Init /\ [][DriverNext]_vars

FileSpec == FileInit /\ [][FileNext]_vars

ArpSpec == ArpInit /\ [][ArpNext]_vars

ArpFairSpec == ArpSpec /\ WF_vars(ArpNext)

ConcSpec == ConcInit /\ [][ConcNext]_vars

(***************************************************************************)
(* Observations on the driver.                                             *)
(***************************************************************************)
\* the running logpkt_write_payload has returned 0
Succeeded == pc = "done" /\ call.rv = 0

\* the running logpkt_write_payload has returned -1
Failed == pc = "done" /\ call.rv = -1

\* the TCP block a frame's own logpkt_build_packet built: the Ethernet and
\* IP blocks are the last two of the frame
FrameTcp(f) == f.layers[Len(f.layers) - 2]

\* the payload bytes libnet_build_tcp copied into that block
FrameData(f) ==
    LET t == FrameTcp(f)
    IN  [i \in 1..t.len |-> PayloadByte(t.buf, t.off + i - 1)]

IsDataFrame(f) == FrameTcp(f).len > 0

IsPureAck(f) == FrameTcp(f).flags = TH_ACK /\ FrameTcp(f).len = 0

DataFrames == SelectSeq(sink, IsDataFrame)

RECURSIVE ConcatData(_)
ConcatData(frames) ==
    IF frames = <<>> THEN <<>>
    ELSE FrameData(Head(frames)) \o ConcatData(Tail(frames))

CeilDiv(n, m) == (n + m - 1) \div m

SynCall == HasFlag(call.flags, TH_SYN)

\* a step in which the running logpkt_write_payload calls
\* logpkt_write_packet once
PacketStep == call'.nwp = call.nwp + 1

\* the arguments of that logpkt_write_packet: a chunk from the sender
\* inside the loop, the pure ACK from the receiver after it
PacketContext ==
    IF call.payloadlen > 0 THEN call.from ELSE AckContext(call.from, call.to)

PacketFlags ==
    IF call.payloadlen > 0 THEN call.flags ELSE AckFlags(call.flags)

PacketLen == IF call.payloadlen > 0 THEN SendSize(call.payloadlen) ELSE 0

\* the faults that make logpkt_build_packet fail
SynthesisFaults == {"tcp", "ip", "eth"}

\* the bytes of the data frames the sink took in the running call
RECURSIVE SumLen(_)
SumLen(frames) ==
    IF frames = <<>> THEN 0
    ELSE FrameTcp(Head(frames)).len + SumLen(Tail(frames))

(***************************************************************************)
(* C1 as stated: after a successful logpkt_write_payload(A, B, flags, P),  *)
(* for every flags value, B.ack is its value at entry plus len(P) and      *)
(* A.seq is its value at entry plus len(P), modulo 2^32.                   *)
(***************************************************************************)
C1_AsStated ==
    Succeeded =>
        /\ ctx[call.to].ack = Add32(entry[call.to].ack, call.buf)
        /\ ctx[call.from].seq = Add32(entry[call.from].seq, call.buf)

(***************************************************************************)
(* C1 amended: after a successful call B.ack is its value at entry plus    *)
(* len(P) modulo 2^32; A.seq is its value at entry plus len(P) modulo 2^32 *)
(* when flags has no SYN bit or P is empty; with the SYN bit and a         *)
(* non-empty P, A.seq is the sequence number of the last data frame (the   *)
(* random value drawn for it) plus the length of that last chunk.          *)
(***************************************************************************)
C1_Counters ==
    Succeeded =>
        /\ ctx[call.to].ack = Add32(entry[call.to].ack, call.buf)
        /\ (~SynCall \/ call.buf = 0) =>
              ctx[call.from].seq = Add32(entry[call.from].seq, call.buf)
        /\ (SynCall /\ call.buf > 0) =>
              LET t == FrameTcp(DataFrames[Len(DataFrames)])
              IN  /\ t.seq \in PrandValues
                  /\ ctx[call.from].seq = Add32(t.seq, t.len)

\* a successful call without SYN whose payload took several chunks and
\* carried the receiver's acknowledgment past 2^32
C1_Witness ==
    /\ Succeeded
    /\ ~SynCall
    /\ call.buf > MSS_VAL
    /\ entry[call.to].ack[1] = Half - 1
    /\ ctx[call.to].ack[1] = 0
    /\ ctx[call.from].seq[1] = 0

(***************************************************************************)
(* C2: a successful call dispatches exactly ceil(len(P)/1420) data frames  *)
(* from the sender context, each of at most 1420 payload bytes and all but *)
(* the last of exactly 1420, and their payloads concatenated in dispatch   *)
(* order are P.                                                            *)
(***************************************************************************)
C2_Chunks ==
    Succeeded =>
        LET d == DataFrames
            k == Len(d)
        IN  /\ k = CeilDiv(call.buf, MSS_VAL)
            /\ \A i \in 1..k :
                  /\ FrameTcp(d[i]).from = call.from
                  /\ FrameTcp(d[i]).len <= MSS_VAL
                  /\ i < k => FrameTcp(d[i]).len = MSS_VAL
            /\ ConcatData(d) = Payload(call.buf)

\* a successful call whose payload took three chunks, the last one short
C2_Witness ==
    /\ Succeeded
    /\ Len(DataFrames) >= 3
    /\ FrameTcp(DataFrames[Len(DataFrames)]).len < MSS_VAL

(***************************************************************************)
(* C3: a successful call, also one with an empty payload, dispatches       *)
(* exactly one pure ACK frame (flags TH_ACK only, no payload); it is built *)
(* from the receiver context, it is the last frame of the call, and it     *)
(* carries the receiver's acknowledgment as all chunks of the call left it.*)
(***************************************************************************)
C3_TrailingAck ==
    Succeeded =>
        /\ Len(sink) >= 1
        /\ Cardinality({i \in 1..Len(sink) : IsPureAck(sink[i])}) = 1
        /\ LET t == FrameTcp(sink[Len(sink)])
           IN  /\ IsPureAck(sink[Len(sink)])
               /\ t.from = call.to
               /\ t.ack = Add32(entry[call.to].ack, call.buf)
               /\ t.ack = ctx[call.to].ack
        /\ \A i \in 1..(Len(sink) - 1) : IsDataFrame(sink[i])

\* a successful call with flags TH_ACK and several chunks: the data frames
\* carry the ACK flag alone too, and the pure ACK follows them
C3_Witness ==
    /\ Succeeded
    /\ call.flags = TH_ACK
    /\ call.buf > MSS_VAL
    /\ Len(sink) >= 3

(***************************************************************************)
(* C10: a logpkt_write_packet that returns -1 ends the call with -1 at     *)
(* once; a failed call made exactly one logpkt_write_packet call more      *)
(* than it dispatched frames (no retry, no further data frame, no trailing *)
(* ACK), and the frames dispatched before the failure are all still there: *)
(* the leading chunks of P, in order.                                      *)
(***************************************************************************)
C10_FailFast ==
    /\ call.wprv = -1 => Failed
    /\ Failed =>
          /\ call.wprv = -1
          /\ call.nwp = Len(sink) + 1
          /\ \A i \in 1..Len(sink) :
                /\ IsDataFrame(sink[i])
                /\ FrameTcp(sink[i]).off = (i - 1) * MSS_VAL
                /\ FrameTcp(sink[i]).len
                      = SendSize(call.buf - (i - 1) * MSS_VAL)
          /\ ~ \E i \in 1..Len(sink) : IsPureAck(sink[i])

\* a call that failed on its third chunk, two frames dispatched before
C10_Witness ==
    /\ Failed
    /\ Len(sink) = 2
    /\ call.payloadlen > 0

(***************************************************************************)
(* Observations on the capture file.                                       *)
(***************************************************************************)
StartsWithGlobalHdr(f) ==
    Len(f) >= FileHdrSize /\ SubSeq(f, 1, FileHdrSize) = GlobalHdr

\* f holds a magic field, and it is not PCAP_MAGIC
MagicMismatch(f) == Len(f) >= 4 /\ Decode32(f, 1) # PCAP_MAGIC

\* f from offset i on (from 1) is a sequence of complete records: a record
\* header with incl_len = orig_len, followed by incl_len bytes
RECURSIVE RecordsFrom(_, _)
RecordsFrom(f, i) ==
    IF i = Len(f) + 1 THEN TRUE
    ELSE IF i + RecHdrSize - 1 > Len(f) THEN FALSE
    ELSE LET incl == Decode32(f, i + 8)
             orig == Decode32(f, i + 12)
         IN  /\ incl = orig
             /\ incl[1] = 0
             /\ i + RecHdrSize + incl[2] - 1 <= Len(f)
             /\ RecordsFrom(f, i + RecHdrSize + incl[2])

WellFormed(f) == StartsWithGlobalHdr(f) /\ RecordsFrom(f, FileHdrSize + 1)

\* the last logpkt_pcap_open_fd met no failing system call and no short
\* write
OpenUndisturbed ==
    fop.op = "open" /\ fop.fault = "none" /\ fop.w = FileHdrSize

(***************************************************************************)
(* C4 as stated: logpkt_pcap_open_fd on a file of any non-zero length      *)
(* whose magic field is not PCAP_MAGIC succeeds and leaves exactly a       *)
(* freshly written global header.                                          *)
(***************************************************************************)
C4_AsStated ==
    (OpenUndisturbed /\ Len(prev.file) > 0 /\ MagicMismatch(prev.file)) =>
        (fop.rv = 0 /\ file = GlobalHdr)

(***************************************************************************)
(* C5: a successful logpkt_pcap_open_fd on a zero-length file, and on a    *)
(* non-empty file that starts with the exact global header bytes, leaves   *)
(* the file offset at end-of-file; in the second case the file is          *)
(* byte-for-byte what it was.                                              *)
(***************************************************************************)
C5_OpenAtEof ==
    (fop.op = "open" /\ fop.rv = 0
        /\ (prev.file = <<>> \/ StartsWithGlobalHdr(prev.file))) =>
        /\ pos = Len(file)
        /\ prev.file # <<>> => file = prev.file

\* a successful open of a file that held the global header and a record
C5_Witness ==
    /\ fop.op = "open"
    /\ fop.rv = 0
    /\ StartsWithGlobalHdr(prev.file)
    /\ Len(prev.file) > FileHdrSize
    /\ pos = Len(file)
    /\ file = prev.file

(***************************************************************************)
(* C6 as stated: after any sequence of opens and record appends, failed    *)
(* appends included, the file is the global header followed by complete    *)
(* records: an append to such a file leaves such a file, and so does a     *)
(* successful open of an empty, a foreign or such a file.                  *)
(***************************************************************************)
C6_AsStated ==
    /\ (fop.op = "append" /\ WellFormed(prev.file)) => WellFormed(file)
    /\ (fop.op = "open" /\ fop.rv = 0
          /\ (prev.file = <<>> \/ WellFormed(prev.file)
                \/ MagicMismatch(prev.file))) => WellFormed(file)

(***************************************************************************)
(* Observations on the resolver.                                           *)
(***************************************************************************)
LookupDone == arp.pc = "done"

\* the lookup ran its loop with no failing transmit or dispatch and saw no
\* frame that passes the filters
Unanswered ==
    LookupDone /\ arp.fault = "none" /\ ~arp.err /\ arp.passed = 0

(***************************************************************************)
(* C7: with no frame passing the filters and no transmit or capture error, *)
(* logpkt_ether_lookup sends exactly 50 requests, returns -1 and leaves    *)
(* the destination hardware address alone; it never sends more than 50,    *)
(* and it terminates.                                                      *)
(***************************************************************************)
C7_FiftyRequests ==
    /\ [](arp.sent <= ArpTries)
    /\ [](Unanswered =>
            (arp.sent = ArpTries /\ arp.ret = -1 /\ arp.dst_ether = "unset"))
    /\ <>LookupDone

\* a lookup that gave up after 50 requests, having seen only frames that
\* do not pass the filters
C7_Witness ==
    /\ Unanswered
    /\ arp.sent = ArpTries
    /\ arp.seen > 0
    /\ arp.ret = -1

(***************************************************************************)
(* C8 as stated: logpkt_ether_lookup returns the sender hardware address   *)
(* of the first frame that passed every filter; a later passing frame      *)
(* never changes the address returned.                                     *)
(***************************************************************************)
C8_AsStated ==
    (LookupDone /\ arp.fault = "none" /\ ~arp.err /\ arp.first # "none") =>
        arp.dst_ether = arp.first

(***************************************************************************)
(* C9 as stated: when the setup fails before the first request is sent,    *)
(* logpkt_ether_lookup returns -1.                                         *)
(***************************************************************************)
C9_AsStated ==
    (LookupDone /\ arp.fault # "none") => arp.ret = -1


(***************************************************************************)
(* C11 as stated: when logpkt_write_packet fails because a layer (TCP, IP  *)
(* or Ethernet) cannot be built, for every flags value, TH_SYN included,   *)
(* the seq and ack of the context the frame was built from are what they   *)
(* were before the call.                                                   *)
(***************************************************************************)
C11_AsStated ==
    [][(PacketStep /\ call'.wfault \in SynthesisFaults)
          => /\ ctx'[PacketContext].seq = ctx[PacketContext].seq
             /\ ctx'[PacketContext].ack = ctx[PacketContext].ack]_vars

(***************************************************************************)
(* C12 as stated, on the steps of a call whose first frame was built with  *)
(* TH_SYN and in which no layer fails to be built: from then on a          *)
(* context's seq changes only by growing, modulo 2^32, by the payload      *)
(* length of a frame built from that context, and a context's ack changes  *)
(* only by growing by the length of a chunk just dispatched to it.         *)
(***************************************************************************)
C12_AsStated ==
    [][(pc = "loop" /\ SynCall /\ call.nwp >= 1
           /\ call'.wfault \notin SynthesisFaults)
          => \A c \in Contexts :
                /\ ctx'[c].seq # ctx[c].seq
                      => /\ PacketStep
                         /\ c = PacketContext
                         /\ ctx'[c].seq = Add32(ctx[c].seq, PacketLen)
                /\ ctx'[c].ack # ctx[c].ack
                      => /\ PacketStep
                         /\ call.payloadlen > 0
                         /\ c = call.to
                         /\ call'.wprv = 0
                         /\ ctx'[c].ack = Add32(ctx[c].ack, PacketLen)]_vars

(***************************************************************************)
(* C12, amended: in every step a context's seq changes only in a           *)
(* logpkt_write_packet built from that context, either by growing, modulo  *)
(* 2^32, by the payload length of a frame that was built without TH_SYN,   *)
(* or, for a frame with TH_SYN (the first or any later one, built or       *)
(* not), by becoming the value drawn, plus the payload length when the     *)
(* frame was built; a context's ack changes only by growing by the length  *)
(* of a chunk just dispatched to it.                                       *)
(***************************************************************************)
C12_CounterSteps ==
    [][\A c \in Contexts :
          /\ ctx'[c].seq # ctx[c].seq
                => /\ PacketStep
                   /\ c = PacketContext
                   /\ IF HasFlag(PacketFlags, TH_SYN)
                      THEN \E r \in PrandValues :
                              ctx'[c].seq
                                 = IF call'.wfault \in SynthesisFaults
                                   THEN r ELSE Add32(r, PacketLen)
                      ELSE /\ call'.wfault \notin SynthesisFaults
                           /\ ctx'[c].seq = Add32(ctx[c].seq, PacketLen)
          /\ ctx'[c].ack # ctx[c].ack
                => /\ PacketStep
                   /\ call.payloadlen > 0
                   /\ c = call.to
                   /\ call'.wprv = 0
                   /\ ctx'[c].ack = Add32(ctx[c].ack, PacketLen)]_vars

\* a call with TH_SYN that built a second chunk and the pure ACK after its
\* first frame
C12_Witness ==
    /\ Succeeded
    /\ SynCall
    /\ call.nwp >= 3

\* the blocks one logpkt_build_packet appends: TCP, IP, Ethernet, built
\* from one context
OwnLayers(f) ==
    /\ Len(f.layers) = 3
    /\ f.layers[1].kind = "tcp"
    /\ f.layers[2].kind \in {"ipv4", "ipv6"}
    /\ f.layers[3].kind = "eth"
    /\ \A i \in 1..3 : f.layers[i].from = f.layers[1].from

(***************************************************************************)
(* C13 as stated: every frame logpkt_write_packet hands to the sink is     *)
(* made of exactly the Ethernet, IP and TCP blocks built by that call, and *)
(* after logpkt_write_packet has returned, with success, with a synthesis  *)
(* failure or with a dispatch failure, the libnet context holds no blocks. *)
(***************************************************************************)
C13_AsStated ==
    /\ pblocks = <<>>
    /\ \A i \in 1..Len(sink) : OwnLayers(sink[i])


\* the length of the chunk whose dispatch failed, when the running call
\* ended that way
FailedChunk ==
    IF call.wfault = "write" /\ call.payloadlen > 0 THEN call.sendsize ELSE 0

\* the sender's seq has moved n bytes since the entry of the running call
SeqAdvancedBy(n) == ctx[call.from].seq = Add32(entry[call.from].seq, n)

\* the receiver's ack has moved n bytes since the entry of the running call
AckAdvancedBy(n) == ctx[call.to].ack = Add32(entry[call.to].ack, n)

(***************************************************************************)
(* C18 as stated, a failure "in dispatch" read as the failed dispatch of a *)
(* data chunk: on every return of logpkt_write_payload the receiver's ack  *)
(* has grown by the total payload length of the data frames the sink took; *)
(* when the call fails in dispatch the sender's seq has grown by that      *)
(* total plus the length of the failed chunk, so the two grow by equal     *)
(* amounts only when no data chunk's dispatch failed.                      *)
(***************************************************************************)
C18_AsStated ==
    pc = "done"
       => /\ AckAdvancedBy(SumLen(DataFrames))
          /\ FailedChunk > 0
                => SeqAdvancedBy(SumLen(DataFrames) + FailedChunk)
          /\ SeqAdvancedBy(SumLen(DataFrames)) => FailedChunk = 0

(***************************************************************************)
(* C18, amended: on every return of logpkt_write_payload the receiver's    *)
(* ack has grown by the total payload length of the data frames the sink   *)
(* took.  When no frame of the call carries TH_SYN, the sender's seq has   *)
(* grown by that total, plus the length of the failed chunk when the call  *)
(* failed in the dispatch of a data chunk; so without TH_SYN the two grow  *)
(* by equal amounts exactly when no data chunk's dispatch failed: on       *)
(* success, on a synthesis failure, and when only the dispatch of the      *)
(* closing ACK failed.                                                     *)
(***************************************************************************)
C18_Advances ==
    pc = "done"
       => /\ AckAdvancedBy(SumLen(DataFrames))
          /\ ~(SynCall /\ call.buf > 0)
                => /\ SeqAdvancedBy(SumLen(DataFrames) + FailedChunk)
                   /\ SeqAdvancedBy(SumLen(DataFrames)) <=> FailedChunk = 0

\* a call without TH_SYN whose second chunk was built and then refused by
\* the sink
C18_Witness ==
    /\ Failed
    /\ ~SynCall
    /\ FailedChunk > 0
    /\ Len(DataFrames) = 1


\* x - y modulo 2^32
Sub32(x, y) ==
    LET lo == x[2] - y[2]
        borrow == IF lo < 0 THEN 1 ELSE 0
    IN  <<(x[1] - y[1] - borrow) % Half, lo % Half>>

Peer(c) == IF c = "A" THEN "B" ELSE "A"

\* how far a context's seq is ahead of what its peer acknowledges
Gap(cs, c) == Sub32(cs[c].seq, cs[Peer(c)].ack)

\* each context acknowledges exactly its peer's next sequence number
Paired(cs) == \A c \in Contexts : cs[Peer(c)].ack = cs[c].seq

\* the last frame of a successful call is the pure ACK
LastFrame == FrameTcp(sink[Len(sink)])

\* Across successful calls without TH_SYN the two contexts stay paired, and
\* the closing ACK carries the sender's next sequence number.
StaysPaired ==
    /\ (pc = "idle" /\ calls = 0) => Paired(ctx)
    /\ (Succeeded /\ ~SynCall /\ Paired(entry))
          => /\ Paired(ctx)
             /\ LastFrame.from = call.to
             /\ LastFrame.ack = ctx[call.from].seq
             /\ LastFrame.seq = ctx[call.from].ack

(***************************************************************************)
(* C19 as stated: two contexts that start paired, as                       *)
(* logpkt_set_packet_fields leaves them, are paired after every successful *)
(* logpkt_write_payload without TH_SYN, in either direction, so every pure *)
(* ACK acknowledges exactly the peer's next sequence number; and the gap   *)
(* between a context's seq and its peer's ack changes only when a frame    *)
(* with TH_SYN is built from that context.                                 *)
(***************************************************************************)
C19_AsStated ==
    /\ []StaysPaired
    /\ [][\A c \in Contexts :
             Gap(ctx', c) # Gap(ctx, c)
                => /\ PacketStep
                   /\ c = PacketContext
                   /\ HasFlag(PacketFlags, TH_SYN)]_vars

(***************************************************************************)
(* C19, amended: two contexts that start paired are paired after every     *)
(* successful logpkt_write_payload without TH_SYN, in either direction,    *)
(* so every pure ACK acknowledges exactly the peer's next sequence number; *)
(* and the gap between a context's seq and its peer's ack changes only     *)
(* when a frame with TH_SYN is built from that context, or when a data     *)
(* chunk built from it is refused by the sink, which leaves seq advanced   *)
(* and the peer's ack behind.                                              *)
(***************************************************************************)
C19_Paired ==
    /\ []StaysPaired
    /\ [][\A c \in Contexts :
             Gap(ctx', c) # Gap(ctx, c)
                => /\ PacketStep
                   /\ c = PacketContext
                   /\ \/ HasFlag(PacketFlags, TH_SYN)
                      \/ call'.wfault = "write" /\ PacketLen > 0]_vars

\* a second successful call, in the other direction, after a first one that
\* moved the counters
C19_Witness ==
    /\ Succeeded
    /\ ~SynCall
    /\ calls = 2
    /\ Paired(entry)
    /\ entry["A"].seq # entry["A"].ack
    /\ call.from = "B"
    /\ call.buf > MSS_VAL


(***************************************************************************)
(* C14 as stated: logpkt_ether_lookup writes the destination hardware      *)
(* address, and returns success, only if some frame it observed passed all *)
(* five filters; frames that fail a filter leave the result and the        *)
(* address of the callback context alone; on every failing return the      *)
(* caller's destination hardware address is unchanged.                     *)
(***************************************************************************)
C14_AsStated ==
    /\ LookupDone
          => /\ arp.dst_ether # "unset" => arp.passed > 0
             /\ arp.ret = 0 => arp.passed > 0
             /\ arp.ret # 0 => arp.dst_ether = "unset"
    /\ (arp.pc \in {"send", "dispatch", "after"} /\ arp.passed = 0)
          => (arp.result = -1 /\ arp.ether = "garbage")

(***************************************************************************)
(* C15: once a frame passing every filter has been observed in an attempt, *)
(* logpkt_ether_lookup broadcasts no further request: the number of        *)
(* requests sent stays the index of the attempt in which the first passing *)
(* frame was observed.                                                     *)
(***************************************************************************)
C15_NoRequestAfterReply ==
    arp.first # "none"
       => /\ arp.sent = arp.firstTry
          /\ arp.tries = arp.firstTry
          /\ arp.pc \in {"dispatch", "after", "done"}

\* a lookup answered in its third attempt, with more frames captured after
\* the reply
C15_Witness ==
    /\ LookupDone
    /\ arp.firstTry = 3
    /\ arp.sent = 3
    /\ arp.passed = 1
    /\ arp.seen = MaxWindow
    /\ arp.ret = 0

(***************************************************************************)
(* C16: when the transmit of a request or the capture dispatch reports an  *)
(* error in any attempt, logpkt_ether_lookup leaves the retry loop at      *)
(* once, whatever attempts remain, and it returns -1 and leaves the        *)
(* destination hardware address alone when no passing frame had been       *)
(* observed before the error.                                              *)
(***************************************************************************)
C16_ErrorLeavesLoop ==
    arp.err
       => /\ arp.pc \in {"after", "done"}
          /\ arp.count = ArpTries - (arp.tries - 1)
          /\ (LookupDone /\ arp.passed = 0)
                => (arp.ret = -1 /\ arp.dst_ether = "unset")

\* a capture error in the second attempt, after a frame that fails the
\* filters, with 48 attempts left
C16_Witness ==
    /\ LookupDone
    /\ arp.err
    /\ arp.tries = 2
    /\ arp.sent = 2
    /\ arp.seen > 0
    /\ arp.passed = 0
    /\ arp.ret = -1


\* the file held at least a global header's bytes, the first four of them
\* the magic number, before the last operation
HadPcapMagic ==
    /\ Len(prev.file) >= FileHdrSize
    /\ Decode32(prev.file, 1) = PCAP_MAGIC

(***************************************************************************)
(* C17: logpkt_pcap_open_fd on a file of at least the global header's size *)
(* whose magic number is PCAP_MAGIC succeeds, with every system call       *)
(* succeeding, and changes neither the content nor the length of the file, *)
(* whatever the other header fields and the bytes after the header are;    *)
(* so a second logpkt_pcap_open_fd right after a successful one leaves the *)
(* file byte for byte as it was.                                           *)
(***************************************************************************)
C17_OpenKeepsPcap ==
    /\ []((fop.op = "open" /\ fop.fault = "none" /\ HadPcapMagic)
             => (fop.rv = 0 /\ file = prev.file /\ pos = Len(file)))
    /\ [][(fop.op = "open" /\ fop.rv = 0
              /\ fop'.op = "open" /\ fop'.opens = fop.opens + 1
              /\ fop'.fault = "none")
             => (fop'.rv = 0 /\ file' = file)]_vars

\* a second open of a file that has the magic number, other values in the
\* rest of its header, and bytes after it
C17_Witness ==
    /\ fop.op = "open"
    /\ fop.opens = 2
    /\ fop.rv = 0
    /\ appends = 0
    /\ HadPcapMagic
    /\ ~StartsWithGlobalHdr(file)
    /\ Len(file) > FileHdrSize
    /\ file = prev.file


(***************************************************************************)
(* Observations on connections that share the capture file.                *)
(***************************************************************************)
\* no logpkt_write_packet is running
Quiet == \A c \in Conns : conc.proc[c].pc \in {"idle", "off"}

\* the first byte of the frame of every record of f from offset i on: it
\* names the connection and the frame
RECURSIVE FrameTags(_, _)
FrameTags(f, i) ==
    IF i + RecHdrSize > Len(f) THEN <<>>
    ELSE <<f[i + RecHdrSize]>>
            \o FrameTags(f, i + RecHdrSize + Decode32(f, i + 8)[2])

\* each connection's frames are in the file in the order it wrote them,
\* each once
InDispatchOrder(tags) ==
    \A i \in 1..Len(tags), j \in 1..Len(tags) :
       (i < j /\ tags[i] \div 16 = tags[j] \div 16)
          => tags[i] % 16 < tags[j] % 16

\* a record header that is followed in the file by bytes of another write
\* than that of its own frame
TornRecord ==
    \E i \in 1..(Len(conc.wlog) - 1) :
       /\ conc.wlog[i].part = "hdr"
       /\ conc.wlog[i + 1]
             # [conn |-> conc.wlog[i].conn, k |-> conc.wlog[i].k,
                part |-> "packet"]

\* Serialized calls whose writes all transfer every byte leave complete
\* records, in each connection's order, and no header is ever parted from
\* its frame.
SerializedIntact ==
    (conc.mode = "serialized" /\ \A c \in Conns : conc.proc[c].rv = 0)
       => /\ ~TornRecord
          /\ Quiet
                => /\ WellFormed(file)
                   /\ InDispatchOrder(FrameTags(file, FileHdrSize + 1))
                   /\ Len(FrameTags(file, FileHdrSize + 1))
                         = conc.proc[1].k + conc.proc[2].k

\* Without the serialization a header parted from its frame is not reached
\* (it is: TLC finds this violated).
FreeNeverTorn == conc.mode = "free" => ~TornRecord

(***************************************************************************)
(* C20 as stated: when every logpkt_write_packet of the connections that   *)
(* log to one capture file is serialized, then in every interleaving of    *)
(* their calls the file is, whenever no call is running, a well-formed     *)
(* sequence of complete records in which each connection's frames appear   *)
(* in the order that connection dispatched them.                           *)
(***************************************************************************)
C20_AsStated ==
    (conc.mode = "serialized" /\ Quiet)
       => /\ WellFormed(file)
          /\ InDispatchOrder(FrameTags(file, FileHdrSize + 1))

====
